---------------------------- MODULE Spec2Model ----------------------------
(***************************************************************************)
(* Model of the event-ticketing pipeline of main_app.py: the poll loop of  *)
(* main(), the per-row processing it performs, the Google Sheet it reads   *)
(* and writes (update_sheet_cell), the MongoDB collection behind           *)
(* mongo_helper.MongoDBClient, and the e-mail it sends.                    *)
(*                                                                         *)
(* Every external call of the loop is one step.  A call whose outcome the  *)
(* code distinguishes (a boolean result, an exception) draws that outcome  *)
(* nondeterministically.  Cells are strings, as the Sheets API returns     *)
(* them; strip() and the f-string of row_unique_id are computed.           *)
(***************************************************************************)
EXTENDS Naturals, Sequences, FiniteSets, TLC

VARIABLES
    headers,            \* first line of the sheet (list of column names)
    sheet,              \* the data rows of the live sheet, each a full row
    read_only,          \* the sheet rejects every update (HttpError 403)
    store,              \* the MongoDB collection, in insertion order
    outbox,             \* e-mails accepted by the SMTP server
    temp,               \* files in the directory temp/ of the working directory
    ERROR_LOG,          \* main_app.ERROR_LOG
    PROCESSED_ENTRIES,  \* main_app.PROCESSED_ENTRIES
    sheet_data,         \* main(): rows returned by the last get_sheet_data
    pc,                 \* position of the main thread in main()
    i,                  \* main(): 0-based index of the row in the for loop
    attendee_id,        \* main(): attendee_id ("" stands for None)
    existing_attendee,  \* main(): result of the identity lookup
    id_update_success,  \* main(): result of the "Attendee ID" write-back
    email_sent,         \* main(): value returned by send_ticket_email
    rejected,           \* steps of this pass whose update_sheet_cell returned False
    exc,                \* the call whose exception is propagating ("" if none)
    sleep_for,          \* seconds passed to the pending time.sleep
    uuids,              \* number of uuid4() values drawn so far
    faults,             \* number of external calls that have failed so far
    restarts,           \* number of process restarts so far
    send_calls,         \* the (email, name) pairs send_ticket_email was called with
                        \* in this process
    log_pc              \* position of each thread inside log_error

vars == <<headers, sheet, read_only, store, outbox, temp, ERROR_LOG, PROCESSED_ENTRIES,
          sheet_data, pc, i, attendee_id, existing_attendee,
          id_update_success, email_sent, rejected, exc, sleep_for,
          uuids, faults, restarts, send_calls, log_pc>>

(***************************************************************************)
(* Bounds of the model.                                                    *)
(***************************************************************************)
MaxRestarts == 1
MaxFaults == 2
MaxLogCalls == 4

(***************************************************************************)
(* Program constants.                                                      *)
(***************************************************************************)
POLLING_INTERVAL_SECONDS == 30
MAX_ERROR_LOG_SIZE == 100

COL_NAME == "Name"
COL_EMAIL == "Email"
COL_TICKET_STATUS == "Ticket Status"
COL_EMAIL_STATUS == "Email Status"
COL_ATTENDEE_ID == "Attendee ID"

required_columns ==
    <<COL_NAME, COL_EMAIL, COL_TICKET_STATUS, COL_EMAIL_STATUS, COL_ATTENDEE_ID>>

(***************************************************************************)
(* Python string and list helpers.                                         *)
(***************************************************************************)
RECURSIVE lstrip(_)
lstrip(s) ==
    IF Len(s) > 0 /\ SubSeq(s, 1, 1) = " " THEN lstrip(SubSeq(s, 2, Len(s))) ELSE s

RECURSIVE rstrip(_)
rstrip(s) ==
    IF Len(s) > 0 /\ SubSeq(s, Len(s), Len(s)) = " "
    THEN rstrip(SubSeq(s, 1, Len(s) - 1))
    ELSE s

strip(s) == rstrip(lstrip(s))

\* list.index(x): 0-based position of the first occurrence
index(list, x) == (CHOOSE k \in 1..Len(list) : list[k] = x /\ \A j \in 1..(k - 1) : list[j] # x) - 1

In(x, list) == \E k \in 1..Len(list) : list[k] = x

\* get_value_safe(row, col_idx), col_idx 0-based
get_value_safe(row, col_idx) == IF col_idx < Len(row) THEN row[col_idx + 1] ELSE ""

\* COLUMN_INDICES as main() fills it from the header line
COLUMN_INDICES(hdr) == [c \in {hdr[k] : k \in 1..Len(hdr)} |-> index(hdr, c)]


(***************************************************************************)
(* The Google Sheet.                                                       *)
(***************************************************************************)
FullHeaders == required_columns

\* values().get drops the empty cells that end a row
RECURSIVE ApiRow(_)
ApiRow(row) ==
    IF Len(row) > 0 /\ row[Len(row)] = "" THEN ApiRow(SubSeq(row, 1, Len(row) - 1)) ELSE row

\* get_sheet_data without an HttpError: (headers, data)
get_sheet_data(hdr, rows) ==
    LET values == IF hdr = <<>> THEN <<>> ELSE <<hdr>> \o [k \in 1..Len(rows) |-> ApiRow(rows[k])]
    IN  IF values = <<>> THEN <<<<>>, <<>>>> ELSE <<Head(values), Tail(values)>>

\* the except clause of get_sheet_data as if it returned the header line
HttpErrorResultWithHeaders(hdr, rows) == <<hdr, <<>>>>

\* lines 196-198: get_sheet_data after an HttpError returns [], []
HttpErrorResult(hdr, rows) == <<<<>>, <<>>>>

\* the cell update_sheet_cell addresses: data row row_index, column col_index
update_sheet_cell(sh, row_index, col_index, value) ==
    [sh EXCEPT ![row_index + 1][col_index + 1] = value]

\* the thread of main() and the daemon thread of run_web_server (lines 494-500)
Threads == {"main", "server"}

\* log_error(message)
log_error(log, message) ==
    IF Len(log) >= MAX_ERROR_LOG_SIZE THEN Append(Tail(log), message) ELSE Append(log, message)

(***************************************************************************)
(* The MongoDB collection.                                                 *)
(***************************************************************************)
None == [None |-> TRUE]

Matches(email, name) == {k \in 1..Len(store) : store[k][COL_EMAIL] = email /\ store[k][COL_NAME] = name}

\* collection.find_one({COL_EMAIL: email, COL_NAME: name})
find_attendee_by_email_and_name(email, name) ==
    IF Matches(email, name) = {} THEN None
    ELSE store[CHOOSE k \in Matches(email, name) : \A j \in Matches(email, name) : k <= j]

\* collection.insert_one(attendee_data)
insert_full_attendee(attendee_data) == Append(store, attendee_data)

\* update_attendee_field as if it replaced the document (collection.replace_one)
\* instead of setting one field of it
replace_attendee(id, field_name, new_value) ==
    LET hits == {k \in 1..Len(store) : store[k]["attendee_id"] = id}
    IN  IF hits = {} THEN store
        ELSE LET k == CHOOSE k \in hits : \A j \in hits : k <= j
             IN  [store EXCEPT ![k] =
                    [f \in {"attendee_id", field_name} |->
                        IF f = field_name THEN new_value ELSE id]]

\* collection.update_one({"attendee_id": attendee_id}, {"$set": {field_name: new_value}})
update_attendee_field(id, field_name, new_value) ==
    LET hits == {k \in 1..Len(store) : store[k]["attendee_id"] = id}
    IN  IF hits = {} THEN store
        ELSE LET k == CHOOSE k \in hits : \A j \in hits : k <= j
             IN  [store EXCEPT ![k] =
                    [f \in DOMAIN store[k] \cup {field_name} |->
                        IF f = field_name THEN new_value ELSE store[k][f]]]

(***************************************************************************)
(* main(): values derived from the row the for loop is at.                 *)
(***************************************************************************)
Idx(col_name) == COLUMN_INDICES(headers)[col_name]

row == sheet_data[i + 1]
name == strip(get_value_safe(row, Idx(COL_NAME)))
email == strip(get_value_safe(row, Idx(COL_EMAIL)))
ticket_status == strip(get_value_safe(row, Idx(COL_TICKET_STATUS)))
row_unique_id == name \o "-" \o email

\* s.replace(' ', '_')
RECURSIVE underscored(_)
underscored(s) ==
    IF Len(s) = 0 THEN s
    ELSE (IF SubSeq(s, 1, 1) = " " THEN "_" ELSE SubSeq(s, 1, 1))
         \o underscored(SubSeq(s, 2, Len(s)))

\* lines 445-446 and 453-454: the two files of the row's pass
qr_path == "temp/" \o underscored(name) \o "_QR.png"
ticket_path == "temp/" \o underscored(name) \o "_Ticket.png"

\* str(uuid.uuid4()): a value never drawn before
uuid4 == "u" \o ToString(uuids + 1)

\* the document main() builds for a new attendee
full_attendee_data ==
    [f \in {headers[k] : k \in 1..Len(headers)}
           \cup {"attendee_id", COL_TICKET_STATUS, COL_EMAIL_STATUS} |->
        CASE f = "attendee_id" -> attendee_id
          [] f = COL_TICKET_STATUS -> "Issued"
          [] f = COL_EMAIL_STATUS -> "Pending"
          [] OTHER -> get_value_safe(row, index(headers, f))]

\* NoIdentity as if line 404 tested the e-mail only
NoIdentityEmailOnly == email = ""

\* the two "continue" tests at the head of the loop body
NoIdentity == name = "" \/ email = ""

\* AlreadyHandled without the test of the marker
AlreadyHandledBySentOnly == ticket_status = "Sent"

\* AlreadyHandled without the test for "Sent"
AlreadyHandledByMarkerOnly == row_unique_id \in PROCESSED_ENTRIES

AlreadyHandled == ticket_status = "Sent" \/ row_unique_id \in PROCESSED_ENTRIES

MissingColumn == \E k \in 1..Len(required_columns) : ~In(required_columns[k], headers)

(***************************************************************************)
(* Initial state: a sheet of fresh registrations, an empty collection.     *)
(***************************************************************************)
\* a new registration: Name, Email, an "Attendee ID" cell that may hold text
Registration(name_cell, email_cell, id_cell) == <<name_cell, email_cell, "", "", id_cell>>

Sheets ==
    { <<Registration("a", "x", ""), Registration("b", "z ", "")>>,     \* two attendees
      <<Registration("a", "x", ""), Registration("a", "x", "Y")>>,     \* one attendee twice
      <<Registration(" a", "x", "Y"), Registration("a", "x", "")>>,    \* padded name
      <<Registration("a-b", "c", ""), Registration("a", "b-c", "")>>,  \* hyphens
      <<Registration(" ", "x", ""), Registration("a", "x", "Y")>> }    \* blank name
ShortHeaders == SubSeq(FullHeaders, 1, 4)
HeadersWithoutName == Tail(FullHeaders)

Locals0 ==
    /\ sheet_data = <<>>
    /\ i = 0
    /\ attendee_id = ""
    /\ existing_attendee = None
    /\ id_update_success = FALSE
    /\ email_sent = FALSE
    /\ rejected = {}
    /\ exc = ""

Init ==
    /\ \/ headers = FullHeaders /\ sheet \in Sheets
       \/ headers = FullHeaders /\ sheet = <<>>
       \/ headers = ShortHeaders /\ sheet = <<<<"a", "x", "", "">>>>
       \/ headers = HeadersWithoutName /\ sheet = <<<<"x", "", "", "">>>>
       \/ headers = <<>> /\ sheet = <<>>
    /\ read_only \in BOOLEAN
    /\ store = <<>>
    /\ outbox = <<>>
    /\ temp = {}
    /\ ERROR_LOG = <<>>
    /\ PROCESSED_ENTRIES = {}
    /\ Locals0
    /\ pc = "fetch"
    /\ sleep_for = 0
    /\ uuids = 0
    /\ faults = 0
    /\ restarts = 0
    /\ send_calls = {}
    /\ log_pc = [t \in Threads |-> "idle"]


(***************************************************************************)
(* Steps of main().  A step names the variables it leaves alone through    *)
(* these tuples.                                                           *)
(***************************************************************************)
locals == <<attendee_id, existing_attendee, id_update_success, email_sent>>
counters == <<uuids, restarts>>

\* an external call goes well (ok) or is one more call that failed
Outcome(ok) ==
    /\ ok \/ faults < MaxFaults
    /\ faults' = IF ok THEN faults ELSE faults + 1

\* update_sheet_cell returns ok: always False on a read-only sheet
SheetOutcome(ok) ==
    IF read_only THEN ~ok /\ UNCHANGED faults ELSE Outcome(ok)

\* update_sheet_cell called at step `label`; ok is False after an HttpError
SheetWrite(label, col_name, value, ok) ==
    /\ SheetOutcome(ok)
    /\ sheet' = IF ok THEN update_sheet_cell(sheet, i, Idx(col_name), value) ELSE sheet
    /\ ERROR_LOG' = IF ok THEN ERROR_LOG ELSE log_error(ERROR_LOG, "Error updating cell")
    /\ rejected' = IF ok THEN rejected ELSE rejected \cup {label}

\* a store call raised: the exception leaves the for loop
Raise(call) ==
    /\ pc' = "except"
    /\ exc' = call
    /\ Outcome(FALSE)
    /\ UNCHANGED <<headers, read_only, send_calls, log_pc, temp, sheet, store, outbox, ERROR_LOG, PROCESSED_ENTRIES,
                   sheet_data, i, locals, rejected, sleep_for, counters>>

\* mongo_client.update_attendee_field(attendee_id, field, value) at step `label`
StoreUpdate(label, field_name, new_value, next) ==
    /\ pc = label
    /\ \/ /\ store' = update_attendee_field(attendee_id, field_name, new_value)
          /\ pc' = next
          /\ Outcome(TRUE)
          /\ UNCHANGED <<headers, read_only, send_calls, log_pc, temp, sheet, outbox, ERROR_LOG, PROCESSED_ENTRIES,
                         sheet_data, i, locals, rejected, exc, sleep_for, counters>>
       \/ Raise("update_attendee_field")

\* a status write whose result main() ignores
StatusWrite(label, col_name, value, next) ==
    /\ pc = label
    /\ \E ok \in BOOLEAN : SheetWrite(label, col_name, value, ok)
    /\ pc' = next
    /\ UNCHANGED <<headers, read_only, send_calls, log_pc, temp, store, outbox, PROCESSED_ENTRIES, sheet_data, i,
                   locals, exc, sleep_for, counters>>

\* SystemExit as if exit(1) raised an Exception: line 485 catches it
SystemExitCaught == "except"

\* line 391: exit(1) raises SystemExit, which no except clause of main() names
SystemExit == "exited"

\* lines 380-397: read the sheet, check the columns
Fetch ==
    /\ pc = "fetch"
    /\ \E http_ok \in BOOLEAN :
        /\ Outcome(http_ok)
        /\ LET got ==    IF http_ok THEN get_sheet_data(headers, sheet)
                         ELSE HttpErrorResult(headers, sheet)
               hdr == got[1]
               data == got[2]
               log == IF http_ok THEN ERROR_LOG
                      ELSE log_error(ERROR_LOG, "fetching sheet data")
           IN  IF hdr = <<>> \/ (~MissingColumn /\ data = <<>>)
               THEN /\ pc' = "sleep"
                    /\ sleep_for' = POLLING_INTERVAL_SECONDS
                    /\ sheet_data' = <<>>
                    /\ ERROR_LOG' = log
               ELSE IF MissingColumn
               THEN /\ pc' = SystemExit
                    /\ ERROR_LOG' = log_error(log, "CRITICAL: Column not found")
                    /\ UNCHANGED <<sleep_for, sheet_data>>
               ELSE /\ pc' = "row"
                    /\ sheet_data' = data
                    /\ ERROR_LOG' = log
                    /\ UNCHANGED sleep_for
    /\ i' = 0
    /\ UNCHANGED <<headers, read_only, send_calls, log_pc, temp, sheet, store, outbox, PROCESSED_ENTRIES, locals,
                   rejected, exc, counters>>

\* time.sleep returns; the while loop starts over
Sleep ==
    /\ UNCHANGED faults
    /\ pc = "sleep"
    /\ pc' = "fetch"
    /\ sleep_for' = 0
    /\ UNCHANGED <<headers, read_only, send_calls, log_pc, temp, sheet, store, outbox, ERROR_LOG, PROCESSED_ENTRIES,
                   sheet_data, i, locals, rejected, exc, counters>>

\* line 399 exhausted, line 480
EndOfRows ==
    /\ UNCHANGED faults
    /\ pc = "row"
    /\ i >= Len(sheet_data)
    /\ pc' = "sleep"
    /\ sleep_for' = POLLING_INTERVAL_SECONDS
    /\ sheet_data' = <<>>
    /\ i' = 0
    /\ UNCHANGED <<headers, read_only, send_calls, log_pc, temp, sheet, store, outbox, ERROR_LOG, PROCESSED_ENTRIES,
                   locals, rejected, exc, counters>>

\* lines 404 and 406: continue
SkipRow ==
    /\ UNCHANGED faults
    /\ pc = "row"
    /\ i < Len(sheet_data)
    /\ NoIdentity \/ AlreadyHandled
    /\ i' = i + 1
    /\ UNCHANGED <<headers, read_only, send_calls, log_pc, temp, sheet, store, outbox, ERROR_LOG, PROCESSED_ENTRIES,
                   sheet_data, pc, locals, rejected, exc, sleep_for, counters>>

\* lines 408-410
Dispatch ==
    /\ UNCHANGED faults
    /\ pc = "row"
    /\ i < Len(sheet_data)
    /\ ~(NoIdentity \/ AlreadyHandled)
    /\ PROCESSED_ENTRIES' = PROCESSED_ENTRIES \cup {row_unique_id}
    /\ pc' = "w_generating"
    /\ UNCHANGED <<headers, read_only, send_calls, log_pc, temp, sheet, store, outbox, ERROR_LOG, sheet_data, i,
                   locals, rejected, exc, sleep_for, counters>>

\* line 412
WriteGenerating == StatusWrite("w_generating", COL_TICKET_STATUS, "Generating...", "find")

\* a found document is truthy, None is not
Found(doc) == doc # None

\* SheetIdDiffers as if line 421 compared nothing: the row's id is trusted
SheetIdTrusted(doc) == FALSE

\* line 421
SheetIdDiffers(doc) == strip(get_value_safe(row, Idx(COL_ATTENDEE_ID))) # doc["attendee_id"]

\* lines 414-426
Find ==
    /\ pc = "find"
    /\ \/ LET doc == find_attendee_by_email_and_name(email, name)
          IN  /\ existing_attendee' = doc
              /\ IF Found(doc)
                 THEN /\ attendee_id' = doc["attendee_id"]
                      /\ pc' = IF SheetIdDiffers(doc) THEN "w_id_found" ELSE "qr"
                      /\ uuids' = uuids
                 ELSE /\ attendee_id' = uuid4
                      /\ uuids' = uuids + 1
                      /\ pc' = "w_id_new"
              /\ UNCHANGED <<headers, read_only, send_calls, log_pc, temp, sheet, store, outbox, ERROR_LOG,
                             PROCESSED_ENTRIES, sheet_data, i, id_update_success,
                             email_sent, rejected, exc, sleep_for, restarts>>
              /\ Outcome(TRUE)
       \/ Raise("find_attendee_by_email_and_name")

\* line 423
WriteIdFound == StatusWrite("w_id_found", COL_ATTENDEE_ID, attendee_id, "qr")

\* AfterIdWrite without the test of line 428: the insert follows in any case
AfterIdWriteUnchecked(id_ok) == "insert"

\* AfterIdWrite with the test of line 428 negated
AfterIdWriteInverted(id_ok) == IF id_ok THEN "w_failed_sheet" ELSE "insert"

\* where main() goes after the write of a new id returned id_ok
AfterIdWrite(id_ok)== IF id_ok THEN "insert" ELSE "w_failed_sheet"

\* lines 427-428
WriteIdNew ==
    /\ pc = "w_id_new"
    /\ \E ok \in BOOLEAN :
        /\ SheetWrite("w_id_new", COL_ATTENDEE_ID, attendee_id, ok)
        /\ id_update_success' = ok
        /\ pc' = AfterIdWrite(ok)
    /\ UNCHANGED <<headers, read_only, send_calls, log_pc, temp, store, outbox, PROCESSED_ENTRIES, sheet_data, i,
                   attendee_id, existing_attendee, email_sent, exc, sleep_for, counters>>

\* Insert without the try of lines 429-439: the exception leaves the for loop
InsertUncaught ==
    /\ pc = "insert"
    /\ \/ /\ Outcome(TRUE)
          /\ store' = insert_full_attendee(full_attendee_data)
          /\ pc' = "qr"
          /\ UNCHANGED <<headers, read_only, send_calls, log_pc, temp, sheet, outbox, ERROR_LOG, PROCESSED_ENTRIES,
                         sheet_data, i, locals, rejected, exc, sleep_for, counters>>
       \/ Raise("insert_full_attendee")

\* lines 429-437
Insert ==
    /\ pc = "insert"
    /\ \/ /\ Outcome(TRUE)
          /\ store' = insert_full_attendee(full_attendee_data)
          /\ pc' = "qr"
          /\ UNCHANGED ERROR_LOG
       \/ /\ Outcome(FALSE)
          /\ ERROR_LOG' = log_error(ERROR_LOG, "Error inserting new attendee")
          /\ pc' = "w_failed_db"
          /\ UNCHANGED store
    /\ UNCHANGED <<headers, read_only, send_calls, log_pc, temp, sheet, outbox, PROCESSED_ENTRIES, sheet_data, i,
                   locals, rejected, exc, sleep_for, counters>>

\* lines 438-439
WriteFailedDb == StatusWrite("w_failed_db", COL_TICKET_STATUS, "Failed (DB)", "next")

\* WriteFailedSheet writing the status of the other abort of the identity step
WriteFailedSheetAsDb == StatusWrite("w_failed_sheet", COL_TICKET_STATUS, "Failed (DB)", "next")

\* lines 441-443
WriteFailedSheet ==
    /\ pc = "w_failed_sheet"
    /\ \E ok \in BOOLEAN :
        /\ SheetOutcome(ok)
        /\ sheet' = IF ok THEN update_sheet_cell(sheet, i, Idx(COL_TICKET_STATUS), "Failed (Sheet)")
                    ELSE sheet
        /\ ERROR_LOG' = IF ok THEN log_error(ERROR_LOG, "Aborting processing")
                        ELSE log_error(log_error(ERROR_LOG, "Aborting processing"),
                                       "Error updating cell")
        /\ rejected' = IF ok THEN rejected ELSE rejected \cup {"w_failed_sheet"}
    /\ pc' = "next"
    /\ UNCHANGED <<headers, read_only, send_calls, log_pc, temp, store, outbox, PROCESSED_ENTRIES, sheet_data, i,
                   locals, exc, sleep_for, counters>>


\* GenerateQr without the test of line 449: the pass goes on after a failure
GenerateQrUnchecked ==
    /\ pc = "qr"
    /\ \/ Outcome(TRUE) /\ UNCHANGED ERROR_LOG /\ temp' = temp \cup {qr_path}
       \/ /\ Outcome(FALSE)
          /\ ERROR_LOG' = log_error(ERROR_LOG, "Error generating QR code")
          /\ UNCHANGED temp
    /\ pc' = "img"
    /\ UNCHANGED <<headers, read_only, send_calls, log_pc, sheet, store, outbox, PROCESSED_ENTRIES, sheet_data, i,
                   locals, rejected, exc, sleep_for, counters>>

\* lines 445-451: generate_qr_code returns True or, after any exception, False
GenerateQr ==
    /\ pc = "qr"
    /\ \/ /\ Outcome(TRUE)
          /\ pc' = "img"
          /\ temp' = temp \cup {qr_path}
          /\ UNCHANGED ERROR_LOG
       \/ /\ Outcome(FALSE)
          /\ pc' = "w_failed_qr"
          /\ ERROR_LOG' = log_error(ERROR_LOG, "Error generating QR code")
          /\ UNCHANGED temp
    /\ UNCHANGED <<headers, read_only, send_calls, log_pc, sheet, store, outbox, PROCESSED_ENTRIES, sheet_data, i,
                   locals, rejected, exc, sleep_for, counters>>

WriteFailedQr == StatusWrite("w_failed_qr", COL_TICKET_STATUS, "Failed (QR)", "next")

\* lines 453-457: create_ticket_image returns True or, after any exception, False
CreateTicket ==
    /\ pc = "img"
    /\ \/ /\ Outcome(TRUE)
          /\ pc' = "up_qr"
          /\ temp' = temp \cup {ticket_path}
          /\ UNCHANGED ERROR_LOG
       \/ /\ Outcome(FALSE)
          /\ pc' = "w_failed_img"
          /\ ERROR_LOG' = log_error(ERROR_LOG, "Error creating ticket image")
          /\ UNCHANGED temp
    /\ UNCHANGED <<headers, read_only, send_calls, log_pc, sheet, store, outbox, PROCESSED_ENTRIES, sheet_data, i,
                   locals, rejected, exc, sleep_for, counters>>

WriteFailedImage == StatusWrite("w_failed_img", COL_TICKET_STATUS, "Failed (Image)", "next")

\* Upload as if main() gave the row up when upload_file_to_drive returned None
UploadOrAbort(label, next) ==
    /\ pc = label
    /\ \/ Outcome(TRUE) /\ UNCHANGED ERROR_LOG /\ pc' = next
       \/ /\ Outcome(FALSE)
          /\ ERROR_LOG' = log_error(ERROR_LOG, "Error uploading to Drive")
          /\ pc' = "next"
    /\ UNCHANGED <<headers, read_only, send_calls, log_pc, temp, sheet, store, outbox, PROCESSED_ENTRIES, sheet_data, i,
                   locals, rejected, exc, sleep_for, counters>>

\* upload_file_to_drive at step `label`: a file id or, after an HttpError, None
Upload(label, next) ==
    /\ pc = label
    /\ \/ Outcome(TRUE) /\ UNCHANGED ERROR_LOG
       \/ Outcome(FALSE) /\ ERROR_LOG' = log_error(ERROR_LOG, "Error uploading to Drive")
    /\ pc' = next
    /\ UNCHANGED <<headers, read_only, send_calls, log_pc, temp, sheet, store, outbox, PROCESSED_ENTRIES, sheet_data, i,
                   locals, rejected, exc, sleep_for, counters>>

\* lines 459-460
UploadQr == Upload("up_qr", "up_ticket")
UploadTicket == Upload("up_ticket", "w_generated")

\* lines 462-465
WriteGenerated == StatusWrite("w_generated", COL_TICKET_STATUS, "Generated", "upd_generated")
UpdateGenerated == StoreUpdate("upd_generated", COL_TICKET_STATUS, "Generated", "w_sending")
WriteSending == StatusWrite("w_sending", COL_EMAIL_STATUS, "Sending...", "upd_sending")
UpdateSending == StoreUpdate("upd_sending", COL_EMAIL_STATUS, "Sending...", "send")

\* AfterSend without the test of line 467: the branch of a delivered mail in any case
AfterSendAlwaysSent(sent) == "w_sent_ticket"

\* AfterSend with the branches of line 467 exchanged
AfterSendInverted(sent) == IF sent THEN "w_failed_email" ELSE "w_sent_ticket"

\* where main() goes after send_ticket_email returned sent
AfterSend(sent) == IF sent THEN "w_sent_ticket" ELSE "w_failed_email"

\* line 467: send_ticket_email returns True or, after any exception, False
SendEmail ==
    /\ pc = "send"
    /\ \E sent \in BOOLEAN :
        /\ Outcome(sent)
        /\ email_sent' = sent
        /\ outbox' = IF sent THEN Append(outbox, <<email, name>>) ELSE outbox
        /\ ERROR_LOG' = IF sent THEN ERROR_LOG ELSE log_error(ERROR_LOG, "Error sending email")
        /\ pc' = AfterSend(sent)
    /\ send_calls' = send_calls \cup {<<email, name>>}
    /\ UNCHANGED <<headers, read_only, log_pc, temp, sheet, store, PROCESSED_ENTRIES, sheet_data, i,
                   attendee_id, existing_attendee, id_update_success, rejected,
                   exc, sleep_for, counters>>

\* lines 468-471
WriteSentTicket == StatusWrite("w_sent_ticket", COL_TICKET_STATUS, "Sent", "w_sent_email")
WriteSentEmail == StatusWrite("w_sent_email", COL_EMAIL_STATUS, "Sent", "upd_sent_ticket")
UpdateSentTicket == StoreUpdate("upd_sent_ticket", COL_TICKET_STATUS, "Sent", "upd_sent_email")
\* UpdateSentEmail leaving the e-mail status of the document where line 465 put it
UpdateSentEmailAsSending == StoreUpdate("upd_sent_email", COL_EMAIL_STATUS, "Sending...", "rm")

UpdateSentEmail == StoreUpdate("upd_sent_email", COL_EMAIL_STATUS, "Sent", "rm")

\* lines 473-474
WriteFailedEmail == StatusWrite("w_failed_email", COL_EMAIL_STATUS, "Failed (Email)", "upd_failed_email")
UpdateFailedEmail == StoreUpdate("upd_failed_email", COL_EMAIL_STATUS, "Failed (Email)", "rm")

\* lines 476-478: os.remove(qr_path), os.remove(ticket_path), outside any try
\* statement of the loop body; an OSError of either leaves the for loop
Cleanup ==
    /\ pc = "rm"
    /\ \/ /\ Outcome(TRUE)
          /\ temp' = temp \ {qr_path, ticket_path}
          /\ pc' = "next"
          /\ UNCHANGED exc
       \/ /\ Outcome(FALSE)
          /\ \/ UNCHANGED temp
             \/ temp' = temp \ {qr_path}
          /\ pc' = "except"
          /\ exc' = "os.remove"
    /\ UNCHANGED <<headers, read_only, send_calls, log_pc, sheet, store, outbox, ERROR_LOG, PROCESSED_ENTRIES,
                   sheet_data, i, locals, rejected, sleep_for, counters>>

\* the for loop takes the next row (the end of the body, or a continue)
NextRow ==
    /\ UNCHANGED faults
    /\ pc = "next"
    /\ pc' = "row"
    /\ i' = i + 1
    /\ attendee_id' = ""
    /\ existing_attendee' = None
    /\ id_update_success' = FALSE
    /\ email_sent' = FALSE
    /\ rejected' = {}
    /\ UNCHANGED <<headers, read_only, send_calls, log_pc, temp, sheet, store, outbox, ERROR_LOG, PROCESSED_ENTRIES,
                   sheet_data, exc, sleep_for, counters>>

\* Handler as if line 485 were absent: the exception ends the process
HandlerAbsent ==
    /\ pc = "except"
    /\ pc' = "exited"
    /\ UNCHANGED <<headers, read_only, send_calls, log_pc, temp, sheet, store, outbox, ERROR_LOG, PROCESSED_ENTRIES,
                   sheet_data, i, locals, rejected, exc, sleep_for, counters, faults>>

\* lines 485-488: except Exception
Handler ==
    /\ UNCHANGED faults
    /\ pc = "except"
    /\ ERROR_LOG' = log_error(ERROR_LOG, "An unexpected error occurred in the main loop")
    /\ pc' = "sleep"
    /\ sleep_for' = POLLING_INTERVAL_SECONDS * 2
    /\ sheet_data' = <<>>
    /\ i' = 0
    /\ attendee_id' = ""
    /\ existing_attendee' = None
    /\ id_update_success' = FALSE
    /\ email_sent' = FALSE
    /\ rejected' = {}
    /\ exc' = ""
    /\ UNCHANGED <<headers, read_only, send_calls, log_pc, temp, sheet, store, outbox, PROCESSED_ENTRIES, counters>>

\* the paths of StatusHandler.do_GET that query the collection
StorePaths == {"/attendees", "/unsent"}

\* the message send_attendees_response or send_unsent_response logs
ApiError(path) ==
    IF path = "/attendees" THEN "API Error fetching attendees"
    ELSE "API Error fetching unsent list"

\* lines 67-132: the server thread handles one request.  "/", "/errors" and
\* an unknown path write a response and nothing else, and so do "/attendees"
\* and "/unsent" when nothing in their try statement raises; when the query
\* or the writing of the response raises, they answer 500 and call log_error
do_GET ==
    /\ pc \notin {"exited", "stopped"}
    /\ \/ UNCHANGED <<ERROR_LOG, faults>>
       \/ \E path \in StorePaths :
            /\ Outcome(FALSE)
            /\ ERROR_LOG' = log_error(ERROR_LOG, ApiError(path))
    /\ UNCHANGED <<headers, read_only, send_calls, log_pc, sheet, store, outbox, temp, PROCESSED_ENTRIES,
                   sheet_data, pc, i, locals, rejected, exc, sleep_for, counters>>

\* positions of main() outside the body of the for loop
BetweenRows == {"fetch", "sleep", "row", "next", "except", "exited", "stopped"}

\* the process is killed and started again: lines 48-50 run anew, the sheet,
\* the collection and the delivered mail stay
Restart ==
    /\ restarts < MaxRestarts
    /\ IF pc \in BetweenRows THEN UNCHANGED faults ELSE Outcome(FALSE)
    /\ restarts' = restarts + 1
    /\ PROCESSED_ENTRIES' = {}
    /\ send_calls' = {}
    /\ ERROR_LOG' = <<>>
    /\ sheet_data' = <<>>
    /\ i' = 0
    /\ attendee_id' = ""
    /\ existing_attendee' = None
    /\ id_update_success' = FALSE
    /\ email_sent' = FALSE
    /\ rejected' = {}
    /\ exc' = ""
    /\ pc' = "fetch"
    /\ sleep_for' = 0
    /\ UNCHANGED <<headers, read_only, log_pc, sheet, store, outbox, temp, uuids>>

\* the main thread is in the handler of lines 485-488, outside the try statement
InHandler == pc = "except" \/ (pc = "sleep" /\ sleep_for = POLLING_INTERVAL_SECONDS * 2)

\* lines 482-484: Ctrl+C raises KeyboardInterrupt in the main thread wherever it
\* is; inside the try statement line 482 catches it and the loop is left, in the
\* handler of line 485 nothing catches it; either way the process is over
Interrupt ==
    /\ pc \notin {"exited", "stopped"}
    /\ IF pc \in BetweenRows THEN UNCHANGED faults ELSE Outcome(FALSE)
    /\ pc' = "stopped"
    /\ exc' = IF InHandler THEN "KeyboardInterrupt" ELSE ""
    /\ PROCESSED_ENTRIES' = {}
    /\ send_calls' = {}
    /\ ERROR_LOG' = <<>>
    /\ sheet_data' = <<>>
    /\ i' = 0
    /\ attendee_id' = ""
    /\ existing_attendee' = None
    /\ id_update_success' = FALSE
    /\ email_sent' = FALSE
    /\ rejected' = {}
    /\ sleep_for' = 0
    /\ UNCHANGED <<headers, read_only, log_pc, temp, sheet, store, outbox, counters>>

Next ==
    \/ Fetch \/ Sleep \/ EndOfRows \/ SkipRow \/ Dispatch
    \/ WriteGenerating \/ Find \/ WriteIdFound \/ WriteIdNew \/ Insert
    \/ WriteFailedDb \/ WriteFailedSheet
    \/ GenerateQr \/ WriteFailedQr \/ CreateTicket \/ WriteFailedImage
    \/ UploadQr \/ UploadTicket
    \/ WriteGenerated \/ UpdateGenerated \/ WriteSending \/ UpdateSending
    \/ SendEmail
    \/ WriteSentTicket \/ WriteSentEmail \/ UpdateSentTicket \/ UpdateSentEmail
    \/ WriteFailedEmail \/ UpdateFailedEmail
    \/ Cleanup \/ NextRow \/ Handler \/ Restart \/ Interrupt

Spec == Init /\ [][Next]_vars

\* a step of the server thread: every step of main() moves pc or, skipping a
\* row, i; a restart is counted
ServerStep == <<pc, i, restarts>>' = <<pc, i, restarts>>

\* a step of main() in the running process, as opposed to the process being
\* killed or interrupted and to a step of the server thread
Running == restarts' = restarts /\ pc' # "stopped" /\ ~ServerStep

\* the poll loop together with the requests the server thread handles
ServedNext == Next \/ do_GET

ServedSpec == Init /\ [][ServedNext]_vars

\* the main thread is the only thread of the poll loop and every call returns
\* or raises: a process that is not killed takes its next step
FairSpec == Spec /\ WF_vars(Next /\ Running)


(***************************************************************************)
(* Vocabulary of the properties.                                           *)
(***************************************************************************)
\* the live cell of data row r (0-based) in column col_name
Cell(r, col_name) == sheet[r + 1][Idx(col_name) + 1]

\* main() is inside the body of the for loop, at the row i
InBody == pc \notin BetweenRows

\* the for loop has a row at index i
AtRow == i < Len(sheet_data)

\* the documents whose attendee_id is id
WithId(id) == {k \in 1..Len(store) : store[k]["attendee_id"] = id}


(***************************************************************************)
(* C1.  Identity idempotence: in every reachable state the collection      *)
(* holds at most one document per (email, name) pair, over any number of   *)
(* cycles and restarts.                                                    *)
(***************************************************************************)
C1_OneRecordPerIdentity ==
    \A j, k \in 1..Len(store) :
        (store[j][COL_EMAIL] = store[k][COL_EMAIL] /\ store[j][COL_NAME] = store[k][COL_NAME])
            => j = k

(***************************************************************************)
(* C2.  No insert without write-back: a document is inserted only at the   *)
(* insert step of a pass whose new attendee_id is already in the row's     *)
(* "Attendee ID" cell, and once the write of the new id has returned False *)
(* no step of that pass changes the collection.                            *)
(***************************************************************************)
C2_NoInsertWithoutWriteback ==
    [][ /\ Len(store') > Len(store) =>
            /\ pc = "insert"
            /\ id_update_success
            /\ Cell(i, COL_ATTENDEE_ID) = attendee_id
            /\ store' = Append(store, store'[Len(store')])
            /\ store'[Len(store')]["attendee_id"] = attendee_id
        /\ "w_id_new" \in rejected => store' = store ]_vars

\* a pass has ended after the write of the new id was rejected
C2_Witness ==
    /\ pc = "next"
    /\ "w_id_new" \in rejected
    /\ ~id_update_success
    /\ ~read_only
    /\ WithId(attendee_id) = {}


(***************************************************************************)
(* C3.  Row-ID convergence, as claimed: when the lookup of a pass found a  *)
(* document with attendee_id X, the row's "Attendee ID" cell holds X once  *)
(* the pass is over, whatever it held before.                              *)
(***************************************************************************)
C3_RowIdConverges ==
    (pc = "next" /\ Found(existing_attendee))
        => strip(Cell(i, COL_ATTENDEE_ID)) = existing_attendee["attendee_id"]

\* the steps of a pass that follow the identity resolution of lines 415-443
AfterIdentity ==
    {"qr", "w_failed_qr", "img", "w_failed_img", "up_qr", "up_ticket",
     "w_generated", "upd_generated", "w_sending", "upd_sending", "send",
     "w_sent_ticket", "w_sent_email", "upd_sent_ticket", "upd_sent_email",
     "w_failed_email", "upd_failed_email", "rm", "next", "except"}

(***************************************************************************)
(* C3, amended.  When a row is dispatched and its lookup finds a document  *)
(* with attendee_id X, then from the end of the identity step to the end   *)
(* of the pass the row's "Attendee ID" cell holds X, whatever it held      *)
(* before, unless the write of X to the cell returned False.               *)
(***************************************************************************)
C3_RowIdConvergesUnlessRejected ==
    (pc \in AfterIdentity /\ Found(existing_attendee))
        => \/ strip(Cell(i, COL_ATTENDEE_ID)) = existing_attendee["attendee_id"]
           \/ "w_id_found" \in rejected

\* a pass has ended that found X in the store and Y on the row, and the row now holds X
C3_Witness ==
    /\ pc = "next"
    /\ Found(existing_attendee)
    /\ get_value_safe(row, Idx(COL_ATTENDEE_ID)) = "Y"
    /\ Cell(i, COL_ATTENDEE_ID) = existing_attendee["attendee_id"]
    /\ rejected = {}

(***************************************************************************)
(* C4.  Terminal skip: a row whose Ticket Status cell reads "Sent" and     *)
(* that is not in the middle of its own pass is never dispatched and none  *)
(* of its cells is written; the sheet, the collection and the mail change  *)
(* only inside the pass of a dispatched row.                               *)
(***************************************************************************)
C4_TerminalSkip ==
    [][ /\ \A r \in 0..(Len(sheet) - 1) :
            (strip(Cell(r, COL_TICKET_STATUS)) = "Sent" /\ ~(InBody /\ i = r))
                => /\ sheet'[r + 1] = sheet[r + 1]
                   /\ ~(pc' \notin BetweenRows /\ i' = r)
        /\ (sheet' # sheet \/ store' # store \/ outbox' # outbox) => InBody ]_vars

\* a new process is at a row that reads "Sent" with an Email Status that is not "Sent"
C4_Witness ==
    /\ pc = "row"
    /\ AtRow
    /\ ~NoIdentity
    /\ ticket_status = "Sent"
    /\ row_unique_id \notin PROCESSED_ENTRIES
    /\ Cell(i, COL_EMAIL_STATUS) # "Sent"


\* the row of the pass still reads, cell by cell, what the fetch of the cycle returned
RowUntouched ==
    \A k \in 1..Len(headers) : sheet[i + 1][k] = get_value_safe(row, k - 1)

(***************************************************************************)
(* C5.  Scenario C, as claimed: on a sheet that rejects every write, the   *)
(* pass of a row without a matching document ends with the row's Ticket    *)
(* Status reading "Failed (Sheet)" and no document matching the row.       *)
(***************************************************************************)
C5_FailedSheetOnReadOnlySheet ==
    (read_only /\ pc = "next" /\ ~Found(existing_attendee))
        => /\ Cell(i, COL_TICKET_STATUS) = "Failed (Sheet)"
           /\ Matches(email, name) = {}

(***************************************************************************)
(* C5, amended.  When the write of a new id to the row returns False, the  *)
(* pass ends with no document matching the row and none carrying the new   *)
(* id; the row's Ticket Status reads "Failed (Sheet)" if the write of that *)
(* status is accepted, and if every write of the pass returned False the   *)
(* row is left exactly as it was read.                                     *)
(***************************************************************************)
C5_AbortOnRejectedIdWrite ==
    (pc = "next" /\ "w_id_new" \in rejected)
        => /\ Matches(email, name) = {}
           /\ WithId(attendee_id) = {}
           /\ "w_failed_sheet" \notin rejected
                => Cell(i, COL_TICKET_STATUS) = "Failed (Sheet)"
           /\ rejected = {"w_generating", "w_id_new", "w_failed_sheet"} => RowUntouched
           /\ read_only => rejected = {"w_generating", "w_id_new", "w_failed_sheet"}

\* on a sheet that rejects every write, the pass of a new row has ended
C5_Witness ==
    /\ read_only
    /\ pc = "next"
    /\ ~Found(existing_attendee)
    /\ rejected = {"w_generating", "w_id_new", "w_failed_sheet"}
    /\ store = <<>>

\* a pass is over that accepted the status but not the id
C5_WitnessStatusAccepted ==
    /\ pc = "next"
    /\ "w_id_new" \in rejected
    /\ Cell(i, COL_TICKET_STATUS) = "Failed (Sheet)"

(***************************************************************************)
(* C6.  Scenario A: the pass of a row with a name and an e-mail, an empty  *)
(* Ticket Status and Attendee ID and no matching document, all of whose    *)
(* sheet, store and render calls succeeded, ends with exactly one document *)
(* for the row's e-mail and name, carrying the new id and no other         *)
(* document carrying it, the row's Attendee ID cell equal to that id, and  *)
(* Ticket Status "Sent" after a successful send, "Generated" otherwise.    *)
(***************************************************************************)
C6_ScenarioA ==
    (/\ pc = "rm"
     /\ ~Found(existing_attendee)
     /\ rejected = {}
     /\ ticket_status = ""
     /\ get_value_safe(row, Idx(COL_ATTENDEE_ID)) = "")
        => /\ Cardinality(Matches(email, name)) = 1
           /\ Cardinality(WithId(attendee_id)) = 1
           /\ Matches(email, name) = WithId(attendee_id)
           /\ Cell(i, COL_ATTENDEE_ID) = attendee_id
           /\ Cell(i, COL_TICKET_STATUS) = IF email_sent THEN "Sent" ELSE "Generated"

(***************************************************************************)
(* C7.  E-mail retry: while the process keeps running, a row whose send    *)
(* failed (Ticket Status "Generated", Email Status "Failed (Email)") is    *)
(* dispatched whenever a cycle comes to it.                                *)
(***************************************************************************)
C7_EmailRetry ==
    [][ (/\ pc = "row"
         /\ AtRow
         /\ ~NoIdentity
         /\ ticket_status = "Generated"
         /\ Cell(i, COL_TICKET_STATUS) = "Generated"
         /\ Cell(i, COL_EMAIL_STATUS) = "Failed (Email)"
         /\ Running)
            => pc' = "w_generating" ]_vars


\* row r (0-based) of the fetched rows would be dispatched if the loop came to it now
Eligible(r) ==
    LET n == strip(get_value_safe(sheet_data[r + 1], Idx(COL_NAME)))
        e == strip(get_value_safe(sheet_data[r + 1], Idx(COL_EMAIL)))
        t == strip(get_value_safe(sheet_data[r + 1], Idx(COL_TICKET_STATUS)))
    IN  /\ n # "" /\ e # ""
        /\ t # "Sent"
        /\ (n \o "-" \o e) \notin PROCESSED_ENTRIES

\* the rows of the sheets of Init that follow another row (0-based)
LaterRows == {1}

UnexpectedError == "An unexpected error occurred in the main loop"

(***************************************************************************)
(* C8.  Cycle-level exception handling: an exception that leaves the body  *)
(* of the for loop does not end the process; it is logged, the loop sleeps *)
(* twice the polling interval, and the next cycle reads the sheet again    *)
(* and starts at its first row; a row after the failing one that the cycle *)
(* did not come to is dispatched in a later cycle, unless the process is   *)
(* interrupted before.                                                     *)
(***************************************************************************)
C8_CycleLevelHandler ==
    /\ [][ /\ (exc' # "" /\ exc' # exc /\ Running) => (InBody /\ pc' = "except")
           /\ pc' = "exited" => pc \in {"fetch", "exited"}
           /\ (pc = "except" /\ Running)
                => /\ pc' = "sleep"
                   /\ sleep_for' = 2 * POLLING_INTERVAL_SECONDS
                   /\ ERROR_LOG' = log_error(ERROR_LOG, UnexpectedError)
                   /\ <<sheet, store, outbox, PROCESSED_ENTRIES>>' =
                          <<sheet, store, outbox, PROCESSED_ENTRIES>>
           /\ (pc = "sleep" /\ Running) => pc' = "fetch"
           /\ (pc = "fetch" /\ pc' = "row")
                => /\ i' = 0
                   /\ sheet_data' = get_sheet_data(headers, sheet)[2] ]_vars
    /\ \A r \in LaterRows :
          (pc = "except" /\ i < r /\ r < Len(sheet_data) /\ Eligible(r))
              ~> ((pc = "w_generating" /\ i = r) \/ pc = "stopped")

\* after an exception in the pass of the first row, the same process has
\* dispatched the second row in a later cycle
C8_Witness ==
    /\ pc = "w_generating"
    /\ i = 1
    /\ restarts = 0
    /\ In(UnexpectedError, ERROR_LOG)
    /\ Cell(0, COL_TICKET_STATUS) = "Generating..."


(***************************************************************************)
(* C9.  Row-scoped transient errors: while a later row of the cycle is     *)
(* still to be dispatched, no failing store call or sheet write in the     *)
(* pass of a row makes the loop abandon the rows of the cycle.             *)
(***************************************************************************)
C9_RowScopedErrors ==
    [][ (/\ InBody
         /\ Running
         /\ \E r \in LaterRows : i < r /\ r < Len(sheet_data) /\ Eligible(r))
            => pc' # "except" ]_vars

(***************************************************************************)
(* C10.  E-mail success outcome, as claimed: when send_ticket_email        *)
(* returned True, the pass ends with Ticket Status and Email Status both   *)
(* "Sent" on the row and on the document with the row's attendee_id.       *)
(***************************************************************************)
C10_AllSentAfterSend ==
    (pc = "rm" /\ email_sent)
        => /\ Cell(i, COL_TICKET_STATUS) = "Sent"
           /\ Cell(i, COL_EMAIL_STATUS) = "Sent"
           /\ \A k \in WithId(attendee_id) :
                store[k][COL_TICKET_STATUS] = "Sent" /\ store[k][COL_EMAIL_STATUS] = "Sent"

(***************************************************************************)
(* C10, amended.  When send_ticket_email returned True, then at the end of *)
(* the pass each of the row's Ticket Status and Email Status cells reads   *)
(* "Sent" unless the write of that cell returned False, and, when neither  *)
(* update of the document raised, the document with the attendee_id of the *)
(* pass exists and has both fields "Sent".                                 *)
(***************************************************************************)
C10_SentUnlessRejected ==
    /\ (pc \in {"rm", "next", "except"} /\ email_sent)
          => /\ "w_sent_ticket" \notin rejected => Cell(i, COL_TICKET_STATUS) = "Sent"
             /\ "w_sent_email" \notin rejected => Cell(i, COL_EMAIL_STATUS) = "Sent"
             /\ pc = "except" => exc \in {"update_attendee_field", "os.remove"}
    /\ ((pc \in {"rm", "next"} \/ (pc = "except" /\ exc = "os.remove")) /\ email_sent)
          => /\ WithId(attendee_id) # {}
             /\ \A k \in WithId(attendee_id) :
                  store[k][COL_TICKET_STATUS] = "Sent" /\ store[k][COL_EMAIL_STATUS] = "Sent"

\* a pass whose send and whose four writes of "Sent" all succeeded is at its end
C10_Witness ==
    /\ pc = "rm"
    /\ email_sent
    /\ rejected = {}
    /\ Cell(i, COL_TICKET_STATUS) = "Sent"
    /\ Cell(i, COL_EMAIL_STATUS) = "Sent"
    /\ \E k \in WithId(attendee_id) :
          store[k][COL_TICKET_STATUS] = "Sent" /\ store[k][COL_EMAIL_STATUS] = "Sent"

AfterFailedSend == {"w_failed_email", "upd_failed_email"}

C12_MissingColumnIsFatal ==
    /\ [][ /\ (pc = "fetch" /\ Running /\ headers # <<>> /\ MissingColumn)
                => \/ /\ pc' = "exited"
                      /\ ERROR_LOG' = log_error(ERROR_LOG, "CRITICAL: Column not found")
                      /\ <<sheet, store, outbox, PROCESSED_ENTRIES>>' =
                             <<sheet, store, outbox, PROCESSED_ENTRIES>>
                   \/ (faults' = faults + 1 /\ pc' = "sleep")
           /\ (pc' = "exited" /\ pc # "exited")
                => (pc = "fetch" /\ headers # <<>> /\ MissingColumn)
           /\ pc = "exited" => ~Running ]_vars
    /\ []((headers # <<>> /\ MissingColumn)
            => (pc \in {"fetch", "sleep", "exited", "stopped"} /\ PROCESSED_ENTRIES = {}
                /\ store = <<>> /\ outbox = <<>>))

\* the process has ended on a header line without "Attendee ID" or without "Name"
C12_Witness ==
    /\ pc = "exited"
    /\ restarts = 0
    /\ headers \in {ShortHeaders, HeadersWithoutName}
    /\ ERROR_LOG = <<"CRITICAL: Column not found">>

(***************************************************************************)
(* C13.  A failed identity write-back aborts the row: once a write of the  *)
(* row's "Attendee ID" cell has returned False, for a new id or for the id *)
(* of a found document, the pass does nothing more than write its abort    *)
(* status and end: no QR code, no ticket, no upload, no mail.              *)
(***************************************************************************)
C13_IdWritebackFailureAborts ==
    ("w_id_new" \in rejected \/ "w_id_found" \in rejected)
        => pc \in {"w_failed_sheet", "next"}

\* the statuses with which a pass aborts a row
AbortStatuses == {"Failed (Sheet)", "Failed (DB)", "Failed (QR)", "Failed (Image)"}

(***************************************************************************)
(* C14.  Aborted rows are retried: while the process keeps running, a row  *)
(* whose Ticket Status is one of the abort statuses is dispatched whenever *)
(* a cycle comes to it.                                                    *)
(***************************************************************************)
C14_AbortedRowsRetried ==
    [][ (/\ pc = "row"
         /\ AtRow
         /\ ~NoIdentity
         /\ ticket_status \in AbortStatuses
         /\ Cell(i, COL_TICKET_STATUS) \in AbortStatuses
         /\ Running)
            => pc' = "w_generating" ]_vars

\* the values uuid4 has returned so far
Minted == {"u" \o ToString(n) : n \in 1..uuids}

\* the rows of the sheet (0-based)
Rows == {r \in {0} \cup LaterRows : r < Len(sheet)}

\* row r holds a minted id that no document carries, while a document that the
\* lookup for the row finds carries another id
StaleOrphan(r) ==
    LET y == strip(Cell(r, COL_ATTENDEE_ID))
    IN  /\ y \in Minted
        /\ WithId(y) = {}
        /\ \E k \in Matches(strip(Cell(r, COL_EMAIL)), strip(Cell(r, COL_NAME))) :
              store[k]["attendee_id"] # y

\* the pass is a retry of a row that a pass ended at "Failed (DB)" left with an
\* id that no document carries
RetryOfOrphan ==
    /\ InBody
    /\ ticket_status = "Failed (DB)"
    /\ get_value_safe(row, Idx(COL_ATTENDEE_ID)) \in Minted
    /\ WithId(get_value_safe(row, Idx(COL_ATTENDEE_ID))) = {}

NameAt(r) == strip(get_value_safe(sheet_data[r + 1], Idx(COL_NAME)))
EmailAt(r) == strip(get_value_safe(sheet_data[r + 1], Idx(COL_EMAIL)))
KeyAt(r) == NameAt(r) \o "-" \o EmailAt(r)

(***************************************************************************)
(* C16.  Marker keys are (name, email) pairs: when a row that has a name   *)
(* and an e-mail and is not "Sent" is skipped, every row of the sheet that *)
(* has its marker key, and so may have put the key in the marker, has its  *)
(* name and its e-mail.                                                    *)
(***************************************************************************)
C16_MarkerKeysArePairs ==
    [][ (/\ pc = "row"
         /\ AtRow
         /\ ~NoIdentity
         /\ ticket_status # "Sent"
         /\ Running
         /\ pc' = "row")
            => \A r \in 0..(Len(sheet_data) - 1) :
                  KeyAt(r) = row_unique_id => (NameAt(r) = name /\ EmailAt(r) = email) ]_vars

\* the steps of a pass between its "Generating..." write and its last status write
MidRow ==
    {"find", "w_id_found", "w_id_new", "insert", "qr", "img", "up_qr", "up_ticket",
     "w_generated", "upd_generated", "w_sending", "upd_sending", "send",
     "w_sent_email", "upd_sent_ticket", "upd_sent_email", "upd_failed_email"}

(***************************************************************************)
(* C17.  Interrupt granularity: the loop is left on an interrupt only      *)
(* between rows or between cycles, never while a row is between its        *)
(* "Generating..." write and its last status write, and no exception       *)
(* leaves the poll loop.                                                   *)
(***************************************************************************)
C17_InterruptBetweenRows ==
    [][ (pc' = "stopped" /\ pc # "stopped")
            => (pc \notin MidRow /\ exc' = "") ]_vars

\* the pass minted an id, wrote it to the row, and no document carries it
FailedInsert ==
    /\ ~Found(existing_attendee)
    /\ id_update_success
    /\ WithId(attendee_id) = {}

(***************************************************************************)
(* C18.  Store-insert failure, as claimed: when insert_full_attendee       *)
(* raised after the id was written to the row, the pass ends with the      *)
(* row's Ticket Status reading "Failed (DB)".                              *)
(***************************************************************************)
C18_FailedDbOnRow ==
    (pc = "next" /\ FailedInsert) => Cell(i, COL_TICKET_STATUS) = "Failed (DB)"

(***************************************************************************)
(* C18, amended.  When insert_full_attendee raises after the id was        *)
(* written to the row, the exception is logged and the pass does nothing   *)
(* more than write "Failed (DB)" to the row's Ticket Status: no render, no *)
(* upload, no mail, no change of the collection, which holds no document   *)
(* for the row; the cell reads "Failed (DB)" at the end of the pass unless *)
(* that write returned False; and the loop goes on to the next row of the  *)
(* cycle.                                                                  *)
(***************************************************************************)
C18_InsertFailureAbortsRow ==
    /\ [][ /\ (pc = "insert" /\ Running /\ store' = store)
                => /\ pc' = "w_failed_db"
                   /\ ERROR_LOG' = log_error(ERROR_LOG, "Error inserting new attendee")
                   /\ <<sheet, outbox>>' = <<sheet, outbox>>
           /\ (pc = "w_failed_db" /\ Running)
                => /\ pc' = "next"
                   /\ <<store, outbox>>' = <<store, outbox>>
                   /\ sheet' # sheet
                        => sheet' = update_sheet_cell(sheet, i, Idx(COL_TICKET_STATUS), "Failed (DB)")
           /\ (pc = "next" /\ Running)
                => (pc' = "row" /\ i' = i + 1 /\ sheet_data' = sheet_data) ]_vars
    /\ []((pc \in {"w_failed_db", "next"} /\ FailedInsert)
            => /\ Matches(email, name) = {}
               /\ (pc = "next" /\ "w_failed_db" \notin rejected)
                    => Cell(i, COL_TICKET_STATUS) = "Failed (DB)")

\* after a failed insert for the first row, the same cycle has dispatched the second
C18_Witness ==
    /\ pc = "w_generating"
    /\ i = 1
    /\ restarts = 0
    /\ store = <<>>
    /\ Cell(0, COL_TICKET_STATUS) = "Failed (DB)"
    /\ Cell(0, COL_ATTENDEE_ID) \in Minted
    /\ ERROR_LOG = <<"Error inserting new attendee">>

(***************************************************************************)
(* C19.  Render failure, as claimed: the pass of a row whose QR code could *)
(* not be generated writes "Failed (QR)" to the row's Ticket Status, and   *)
(* one whose ticket image could not be composed writes "Failed (Image)".   *)
(***************************************************************************)
C19_FailedStatusOnRow ==
    [][ /\ (pc = "w_failed_qr" /\ Running)
              => sheet' = update_sheet_cell(sheet, i, Idx(COL_TICKET_STATUS), "Failed (QR)")
        /\ (pc = "w_failed_img" /\ Running)
              => sheet' = update_sheet_cell(sheet, i, Idx(COL_TICKET_STATUS), "Failed (Image)") ]_vars

(***************************************************************************)
(* C19, amended.  When generate_qr_code or create_ticket_image fails, the  *)
(* failure is logged and the pass does nothing more than write "Failed     *)
(* (QR)", respectively "Failed (Image)", to the row's Ticket Status and    *)
(* end: no upload, no mail, and the collection stays exactly as the        *)
(* identity step left it.  The cell holds the status unless that write     *)
(* returned False.                                                         *)
(***************************************************************************)
C19_RenderFailureAbortsRow ==
    [][ /\ (pc = "qr" /\ Running)
              => /\ pc' = IF ERROR_LOG' = ERROR_LOG THEN "img" ELSE "w_failed_qr"
                 /\ ERROR_LOG' \in {ERROR_LOG, log_error(ERROR_LOG, "Error generating QR code")}
                 /\ <<sheet, store, outbox>>' = <<sheet, store, outbox>>
        /\ (pc = "img" /\ Running)
              => /\ pc' = IF ERROR_LOG' = ERROR_LOG THEN "up_qr" ELSE "w_failed_img"
                 /\ ERROR_LOG' \in {ERROR_LOG, log_error(ERROR_LOG, "Error creating ticket image")}
                 /\ <<sheet, store, outbox>>' = <<sheet, store, outbox>>
        /\ (pc \in {"w_failed_qr", "w_failed_img"} /\ Running)
              => /\ pc' = "next"
                 /\ <<store, outbox>>' = <<store, outbox>>
                 /\ sheet' =
                      IF pc \in rejected' THEN sheet
                      ELSE update_sheet_cell(sheet, i, Idx(COL_TICKET_STATUS),
                               IF pc = "w_failed_qr" THEN "Failed (QR)" ELSE "Failed (Image)") ]_vars

\* a pass that inserted a document and then failed to render has ended: the
\* row reads a render failure, the document is as it was inserted
C19_Witness ==
    /\ pc = "next"
    /\ ~Found(existing_attendee)
    /\ rejected = {}
    /\ Cell(i, COL_TICKET_STATUS) \in {"Failed (QR)", "Failed (Image)"}
    /\ \E k \in WithId(attendee_id) : store[k] = full_attendee_data

\* the step that follows each step from the uploads to the send when nothing is raised
AfterUpload ==
    [s \in {"up_qr", "up_ticket", "w_generated", "upd_generated", "w_sending", "upd_sending"} |->
        CASE s = "up_qr" -> "up_ticket"
          [] s = "up_ticket" -> "w_generated"
          [] s = "w_generated" -> "upd_generated"
          [] s = "upd_generated" -> "w_sending"
          [] s = "w_sending" -> "upd_sending"
          [] s = "upd_sending" -> "send"]

UploadError == "Error uploading to Drive"

AfterQr ==
    pc \in {"img", "w_failed_img", "up_qr", "up_ticket", "w_generated", "upd_generated",
            "w_sending", "upd_sending", "send", "w_sent_ticket", "w_sent_email",
            "upd_sent_ticket", "upd_sent_email", "w_failed_email", "upd_failed_email", "rm"}

\* the pass of the row ends with this step: a continue, the end of the loop
\* body, or an exception that leaves the for loop
PassEnds == InBody /\ Running /\ pc' \in {"next", "except"}

\* C21: when a pass that saved a QR file ends, neither the QR file nor the
\* ticket file of the row is left in temp/, whatever the outcome of render,
\* upload and email; and the cleanup step always goes on to the next row: its
\* failure neither aborts the row nor the cycle.
C21_TempFilesRemoved ==
    [][ /\ (AfterQr /\ PassEnds) => temp' \cap {qr_path, ticket_path} = {}
        /\ (pc = "rm" /\ Running) => pc' = "next" ]_vars

(***************************************************************************)
(* C22: the status surface.                                                *)
(***************************************************************************)
\* C22: the status thread never mutates shared state: no step of an endpoint
\* handler changes the records of the collection or ERROR_LOG.
C22_ReadOnlyStatusSurface ==
    [][ServerStep => (store' = store /\ ERROR_LOG' = ERROR_LOG)]_vars

(***************************************************************************)
(* C23: log_error, statement by statement, called from both threads.       *)
(***************************************************************************)
\* the entries ERROR_LOG holds when the specification of log_error starts
OldEntry == "Error updating cell"

\* the message a thread passes to log_error: get_sheet_data's in the thread
\* of main(), send_attendees_response's in the server thread
MessageOf(t) == IF t = "main" THEN "fetching sheet data" ELSE ApiError("/attendees")

\* a process that has logged errors before: the log is full or nearly so,
\* main() is in get_sheet_data, the server thread is in a handler
LogInit ==
    /\ headers = FullHeaders
    /\ sheet = <<>>
    /\ read_only = FALSE
    /\ store = <<>>
    /\ outbox = <<>>
    /\ temp = {}
    /\ \E n \in (MAX_ERROR_LOG_SIZE - 2)..MAX_ERROR_LOG_SIZE :
          ERROR_LOG = [k \in 1..n |-> OldEntry]
    /\ PROCESSED_ENTRIES = {}
    /\ Locals0
    /\ pc = "fetch"
    /\ sleep_for = 0
    /\ uuids = 0
    /\ faults = 0
    /\ restarts = 0
    /\ send_calls = {}
    /\ log_pc = [t \in Threads |-> "idle"]

\* what a step of log_error leaves alone
LogFrame ==
    UNCHANGED <<headers, read_only, send_calls, sheet, store, outbox, temp, PROCESSED_ENTRIES,
                sheet_data, pc, i, locals, rejected, exc, sleep_for, counters>>

\* a call of the thread failed and its except clause calls log_error
LogCall ==
    /\ \E t \in Threads :
        /\ log_pc[t] = "idle"
        /\ log_pc' = [log_pc EXCEPT ![t] = "len"]
    /\ faults < MaxLogCalls
    /\ faults' = faults + 1
    /\ UNCHANGED ERROR_LOG
    /\ LogFrame

\* line 57: if len(ERROR_LOG) >= MAX_ERROR_LOG_SIZE
LogLen ==
    /\ \E t \in Threads :
        /\ log_pc[t] = "len"
        /\ log_pc' = [log_pc EXCEPT ![t] =
                         IF Len(ERROR_LOG) >= MAX_ERROR_LOG_SIZE THEN "pop" ELSE "append"]
    /\ UNCHANGED <<ERROR_LOG, faults>>
    /\ LogFrame

\* line 58: ERROR_LOG.pop(0)
LogPop ==
    /\ \E t \in Threads :
        /\ log_pc[t] = "pop"
        /\ log_pc' = [log_pc EXCEPT ![t] = "append"]
    /\ ERROR_LOG' = Tail(ERROR_LOG)
    /\ UNCHANGED faults
    /\ LogFrame

\* line 59: ERROR_LOG.append(...)
LogAppend ==
    /\ \E t \in Threads :
        /\ log_pc[t] = "append"
        /\ log_pc' = [log_pc EXCEPT ![t] = "idle"]
        /\ ERROR_LOG' = Append(ERROR_LOG, MessageOf(t))
    /\ UNCHANGED faults
    /\ LogFrame

LogNext == LogCall \/ LogLen \/ LogPop \/ LogAppend

\* the interpreter switches threads between the statements of log_error
LogSpec == LogInit /\ [][LogNext]_vars

\* C23: under any interleaving of the log_error calls of the two threads
\* ERROR_LOG holds at most MAX_ERROR_LOG_SIZE entries, and an entry that
\* leaves the log is the oldest one.
C23_BoundedErrorLog ==
    /\ [](Len(ERROR_LOG) <= MAX_ERROR_LOG_SIZE)
    /\ [][Len(ERROR_LOG') < Len(ERROR_LOG) => ERROR_LOG' = Tail(ERROR_LOG)]_vars

(***************************************************************************)
(* C24: a failed read of the sheet.                                        *)
(***************************************************************************)
\* the message get_sheet_data logs after an HttpError
FetchError == "fetching sheet data"

\* this step is a get_sheet_data call that ended in its except clause
ReadFails ==
    /\ pc = "fetch"
    /\ Running
    /\ Len(ERROR_LOG') > Len(ERROR_LOG)
    /\ ERROR_LOG'[Len(ERROR_LOG) + 1] = FetchError

StatusFields == {COL_TICKET_STATUS, COL_EMAIL_STATUS}

\* C25: once a record is inserted no step changes its attendee_id, its name or
\* its email (or any field but Ticket Status and Email Status) and no step
\* deletes it: the collection only grows, and so does its set of attendee_ids.
C25_RecordLifecycle ==
    [][ store' # store
        => /\ Len(store') >= Len(store)
           /\ \A k \in 1..Len(store) :
                 /\ DOMAIN store[k] \subseteq DOMAIN store'[k]
                 /\ DOMAIN store'[k] \subseteq DOMAIN store[k] \cup StatusFields
                 /\ \A f \in DOMAIN store[k] \ StatusFields : store'[k][f] = store[k][f]
           /\ {store[k]["attendee_id"] : k \in 1..Len(store)}
                 \subseteq {store'[k]["attendee_id"] : k \in 1..Len(store')} ]_vars

\* a record that went through every update of a pass: inserted with a minted
\* id, both status fields set to "Sent"
C25_Witness ==
    \E k \in 1..Len(store) :
        /\ store[k]["attendee_id"] \in Minted
        /\ store[k][COL_TICKET_STATUS] = "Sent"
        /\ store[k][COL_EMAIL_STATUS] = "Sent"
        /\ store[k][COL_NAME] # ""

(***************************************************************************)
(* C26: the eligibility gate at the head of the loop body.                 *)
(***************************************************************************)
\* the row's Name or Email is empty after trimming
Blank == name = "" \/ email = ""

\* the loop is at a row without a name or without an e-mail
AtBlankRow == pc = "row" /\ Running /\ AtRow /\ Blank

\* the loop is at a row with an identity, not "Sent", whose key is not in the marker
AtEligibleRow ==
    /\ pc = "row"
    /\ Running
    /\ AtRow
    /\ ~Blank
    /\ ticket_status # "Sent"
    /\ row_unique_id \notin PROCESSED_ENTRIES

\* a row whose Name or Email is empty after trimming is passed over with
\* nothing written, called, sent or marked; every other row that is not
\* "Sent" and not in the marker is dispatched and its key marked; the write
\* of "Generating..." comes next, before the lookup
EligibilityGate ==
    [][ /\ AtBlankRow
           => /\ pc' = "row" /\ i' = i + 1
              /\ <<sheet, store, outbox, temp, ERROR_LOG, PROCESSED_ENTRIES>>' =
                     <<sheet, store, outbox, temp, ERROR_LOG, PROCESSED_ENTRIES>>
        /\ AtEligibleRow
           => /\ pc' = "w_generating" /\ i' = i
              /\ PROCESSED_ENTRIES' = PROCESSED_ENTRIES \cup {row_unique_id}
              /\ <<sheet, store, outbox>>' = <<sheet, store, outbox>>
        /\ (pc = "w_generating" /\ Running)
           => /\ pc' = "find"
              /\ <<store, outbox>>' = <<store, outbox>>
        /\ (pc' = "find" /\ Running) => pc = "w_generating" ]_vars

(***************************************************************************)
(* C26, as claimed: a row without a name or an e-mail is never in the loop *)
(* body, and when the store lookup of a dispatched row is due the row's    *)
(* key is in the marker and its Ticket Status reads "Generating...".       *)
(***************************************************************************)
C26_GeneratingBeforeLookup ==
    /\ [](InBody => ~Blank)
    /\ [](pc = "find" => /\ row_unique_id \in PROCESSED_ENTRIES
                         /\ Cell(i, COL_TICKET_STATUS) = "Generating...")
    /\ EligibilityGate

(***************************************************************************)
(* C26, amended: the same, the Ticket Status reading "Generating..." at    *)
(* the lookup unless the write of line 412 returned False.                 *)
(***************************************************************************)
C26_GeneratingAttemptedBeforeLookup ==
    /\ [](InBody => ~Blank)
    /\ [](pc = "find" => /\ row_unique_id \in PROCESSED_ENTRIES
                         /\ "w_generating" \notin rejected
                               => Cell(i, COL_TICKET_STATUS) = "Generating...")
    /\ EligibilityGate

\* the lookup of the second row is due, "Generating..." is on that row, and
\* the first row, whose name is blank, was passed over untouched
C26_Witness ==
    /\ pc = "find"
    /\ i = 1
    /\ NameAt(0) = ""
    /\ Cell(1, COL_TICKET_STATUS) = "Generating..."
    /\ Cell(0, COL_TICKET_STATUS) = ""
    /\ store = <<>>
    /\ PROCESSED_ENTRIES = {row_unique_id}

(***************************************************************************)
(* C27: one send per attendee and process.                                 *)
(***************************************************************************)
\* C27: within one process run send_ticket_email is invoked at most once per
\* (name, email) pair: a call is never for a pair it was called with before
\* in this process.
C27_OneSendPerPair ==
    [][(pc = "send" /\ Running) => <<email, name>> \notin send_calls]_vars

\* the loop is at a row whose pair send_ticket_email was called with
\* earlier in this process, the row not being "Sent"
C27_Witness ==
    /\ pc = "row"
    /\ AtRow
    /\ <<email, name>> \in send_calls
    /\ ticket_status # "Sent"

(***************************************************************************)
(* C28: the status a pass leaves on its row.                               *)
(***************************************************************************)
\* the values of Ticket Status a finished pass may leave
EndStatuses ==
    {"Generated", "Sent", "Failed (DB)", "Failed (Sheet)", "Failed (QR)", "Failed (Image)"}

\* C28: no row is left at "Generating...": when every sheet write of the pass
\* succeeded and the pass of a dispatched row ends, by the end of the loop
\* body, by a continue or by an exception of a store call that the handler
\* of the cycle catches, the row's Ticket Status is one of EndStatuses.
C28_NoRowStuckGenerating ==
    [][ (PassEnds /\ ~read_only /\ rejected' = {})
            => Cell(i, COL_TICKET_STATUS)' \in EndStatuses ]_vars

(***************************************************************************)
(* C29: the lookup and the insert agree on the identity of a row.          *)
(***************************************************************************)
\* the pass of the row took the NOT FOUND branch and its insert succeeded
InsertedForRow == InBody /\ ~Found(existing_attendee) /\ WithId(attendee_id) # {}

\* C29: the lookup finds what was inserted: once the NOT FOUND branch has
\* inserted a record for a row, find_attendee_by_email_and_name with the
\* trimmed email and name of that row returns that record, padded Name and
\* Email cells included.
C29_LookupFindsInserted ==
    InsertedForRow
        => /\ Found(find_attendee_by_email_and_name(email, name))
           /\ find_attendee_by_email_and_name(email, name)["attendee_id"] = attendee_id

(***************************************************************************)
(* C30: "Sent" means delivered.                                            *)
(***************************************************************************)
\* the (email, name) pairs of the mails the SMTP server accepted
Delivered == {outbox[k] : k \in 1..Len(outbox)}

\* C30: Ticket Status "Sent" is written to a row's cell or to a record only
\* after send_ticket_email returned True for that row in the same pass: the
\* step that puts it there is the write of line 468 on the row of the pass or
\* the update of line 470 on the record of the pass, with email_sent true and
\* the mail of the row delivered; and no state has "Sent" on a row or a
\* record whose (email, name) has no delivered mail.
C30_SentMeansDelivered ==
    /\ [](\A r \in Rows :
            Cell(r, COL_TICKET_STATUS) = "Sent"
                => <<strip(Cell(r, COL_EMAIL)), strip(Cell(r, COL_NAME))>> \in Delivered)
    /\ [](\A k \in 1..Len(store) :
            store[k][COL_TICKET_STATUS] = "Sent"
                => <<strip(store[k][COL_EMAIL]), strip(store[k][COL_NAME])>> \in Delivered)
    /\ [][ /\ (sheet' # sheet /\ \E r \in Rows :
                    Cell(r, COL_TICKET_STATUS)' = "Sent" /\ Cell(r, COL_TICKET_STATUS) # "Sent")
              => /\ pc = "w_sent_ticket" /\ email_sent
                 /\ <<email, name>> \in Delivered
                 /\ \A r \in Rows : Cell(r, COL_TICKET_STATUS)' # Cell(r, COL_TICKET_STATUS) => r = i
           /\ (store' # store /\ \E k \in 1..Len(store') :
                    /\ store'[k][COL_TICKET_STATUS] = "Sent"
                    /\ k <= Len(store) => store[k][COL_TICKET_STATUS] # "Sent")
              => /\ pc = "upd_sent_ticket" /\ email_sent
                 /\ <<email, name>> \in Delivered
                 /\ \A k \in 1..Len(store) :
                       store'[k] # store[k] => store[k]["attendee_id"] = attendee_id ]_vars

\* a cycle is over with "Sent" on a row and on a record
C30_Witness ==
    /\ pc = "sleep"
    /\ \E r \in Rows : Cell(r, COL_TICKET_STATUS) = "Sent"
    /\ \E k \in 1..Len(store) : store[k][COL_TICKET_STATUS] = "Sent"

(***************************************************************************)
(* C31: the two status cells of a row.                                     *)
(***************************************************************************)
\* C31: at the end of every pass, whichever sheet writes of the pass failed,
\* a row whose Ticket Status cell is "Sent" has its Email Status cell at
\* "Sent" too.
C31_StatusColumnsConsistent ==
    [][ PassEnds
            => (Cell(i, COL_TICKET_STATUS)' = "Sent" => Cell(i, COL_EMAIL_STATUS)' = "Sent") ]_vars

(***************************************************************************)
(* C32: the Ticket Status of a record.                                     *)
(***************************************************************************)
\* C32: once the Ticket Status of a record is "Sent" no step changes it, over
\* cycles and restarts, a second row with the same name and e-mail and a
\* rejected write of "Sent" to the row included.
C32_RecordSentIsStable ==
    [][ \A k \in 1..Len(store) :
            store[k][COL_TICKET_STATUS] = "Sent" => store'[k][COL_TICKET_STATUS] = "Sent" ]_vars

=============================================================================
